---- MODULE Spec2Model ----
(***************************************************************************)
(* Model of the EIA-923 efficiency pipeline:                               *)
(*   cleaning.rs  load_state_efficiency  (row parsing and aggregation)     *)
(*   main.rs      compute_efficiency_changes, the sort in main,            *)
(*                display_top_states, write_efficiency_csv                 *)
(*                                                                         *)
(* f64 values are modelled as records: a finite value is an exact          *)
(* rational n/d in lowest terms, and the two infinities and NaN are kept   *)
(* as separate kinds with the IEEE-754 rules for +, -, /, abs, == and      *)
(* partial_cmp.  All finite values of the model are small enough that the  *)
(* sums are exact in f64; quotients are kept exact, where f64 rounds them  *)
(* (monotonically).  +0.0 and -0.0 compare equal and are one value here.   *)
(* Field texts are sequences of one-character strings over digits,         *)
(* letters, ',', '+' and '-'; decimal points and exponents are outside the *)
(* modelled inputs.                                                        *)
(***************************************************************************)
EXTENDS Integers, Sequences, FiniteSets, TLC

VARIABLES
    \* ---- one call of load_state_efficiency (cleaning.rs)
    pc,             \* position in load_state_efficiency / main
    header,         \* column names of the header record
    rows,           \* data records yielded so far by rdr.deserialize()
    state_map,      \* HashMap<String, StateStats>
    valid_rows,
    skipped_rows,
    result,         \* "none", "Ok" or "Err": what the call/main returned
    \* ---- main (main.rs)
    stats_2019,
    stats_2020,
    output,         \* Vec returned by compute_efficiency_changes
    changes,        \* main's `changes`
    top_n,          \* display_top_states' top_n
    displayed,      \* the items display_top_states printed
    written         \* the items write_efficiency_csv wrote

vars == <<pc, header, rows, state_map, valid_rows, skipped_rows, result,
          stats_2019, stats_2020, output, changes, top_n, displayed, written>>

loadVars == <<header, rows, state_map, valid_rows, skipped_rows>>
mainVars == <<stats_2019, stats_2020, output, changes, top_n, displayed, written>>

-----------------------------------------------------------------------------
(* Bounds of the model *)

MaxRows == 2        \* data rows of one file in Spec
MaxMainRows == 2    \* data rows of each year's file in SpecMain
MaxTopN == 2        \* largest top_n drawn in SpecFn

States == {"TX", "CA"}

\* Texts of the fuel field: "1", "-1", "1,234", "x"
FuelTexts ==
    { <<"1">>, <<"-", "1">>, <<"1", ",", "2", "3", "4">>, <<"x">> }

\* Texts of the generation field: "0", "1", "-1", "1,234", "x", "NaN"
GenTexts ==
    { <<"0">>, <<"1">>, <<"-", "1">>, <<"1", ",", "2", "3", "4">>,
      <<"x">>, <<"N", "a", "N">> }

-----------------------------------------------------------------------------
(* f64 *)

Fin(n, d) == [k |-> "fin", n |-> n, d |-> d]
NaN == [k |-> "nan", n |-> 0, d |-> 1]
Inf(sign) == [k |-> "inf", n |-> sign, d |-> 1]
Zero == Fin(0, 1)

AbsInt(i) == IF i < 0 THEN -i ELSE i
SignInt(i) == IF i < 0 THEN -1 ELSE IF i > 0 THEN 1 ELSE 0

RECURSIVE Gcd(_, _)
Gcd(a, b) == IF b = 0 THEN a ELSE Gcd(b, a % b)

\* n/d in lowest terms with a positive denominator (d /= 0)
Norm(n, d) ==
    LET g == Gcd(AbsInt(n), AbsInt(d))
        s == IF d < 0 THEN -1 ELSE 1
    IN  Fin((s * n) \div g, (s * d) \div g)

IsNaN(a) == a.k = "nan"

FNeg(a) ==
    CASE a.k = "nan" -> NaN
      [] a.k = "inf" -> Inf(-a.n)
      [] OTHER       -> Fin(-a.n, a.d)

\* a + b
FAdd(a, b) ==
    CASE a.k = "nan" \/ b.k = "nan" -> NaN
      [] a.k = "inf" /\ b.k = "inf" -> IF a.n = b.n THEN a ELSE NaN
      [] a.k = "inf" -> a
      [] b.k = "inf" -> b
      [] OTHER -> Norm(a.n * b.d + b.n * a.d, a.d * b.d)

\* a - b
FSub(a, b) == FAdd(a, FNeg(b))

\* a / b
FDiv(a, b) ==
    CASE a.k = "nan" \/ b.k = "nan" -> NaN
      [] a.k = "inf" /\ b.k = "inf" -> NaN
      [] a.k = "inf" -> Inf(IF b.n < 0 THEN -a.n ELSE a.n)
      [] b.k = "inf" -> Zero
      [] b.n = 0 -> IF a.n = 0 THEN NaN ELSE Inf(SignInt(a.n))
      [] OTHER -> Norm(a.n * b.d, a.d * b.n)

\* f64::abs
FAbs(a) ==
    CASE a.k = "nan" -> NaN
      [] a.k = "inf" -> Inf(1)
      [] OTHER       -> Fin(AbsInt(a.n), a.d)

\* a == 0.0
FIsZero(a) == a.k = "fin" /\ a.n = 0

\* a < b for values that are not NaN
FLess(a, b) ==
    CASE a.k = "inf" /\ b.k = "inf" -> a.n < b.n
      [] a.k = "inf" -> a.n < 0
      [] b.k = "inf" -> b.n > 0
      [] OTHER -> a.n * b.d < b.n * a.d

\* a.partial_cmp(&b): "None" when either is NaN
PartialCmp(a, b) ==
    IF IsNaN(a) \/ IsNaN(b) THEN "None"
    ELSE IF FLess(a, b) THEN "Less"
    ELSE IF FLess(b, a) THEN "Greater"
    ELSE "Equal"

-----------------------------------------------------------------------------
(* record.fuel.replace(",", "").parse::<f64>() *)

Digits == {"0", "1", "2", "3", "4", "5", "6", "7", "8", "9"}

DigitVal(c) ==
    CASE c = "0" -> 0 [] c = "1" -> 1 [] c = "2" -> 2 [] c = "3" -> 3
      [] c = "4" -> 4 [] c = "5" -> 5 [] c = "6" -> 6 [] c = "7" -> 7
      [] c = "8" -> 8 [] c = "9" -> 9

\* ASCII lower case of the letters that matter to "inf", "infinity", "nan"
Lower(c) ==
    CASE c = "N" -> "n" [] c = "A" -> "a" [] c = "I" -> "i" [] c = "F" -> "f"
      [] c = "T" -> "t" [] c = "Y" -> "y" [] OTHER -> c

LowerAll(t) == [i \in 1..Len(t) |-> Lower(t[i])]

\* str::replace(",", "")
RemoveCommas(t) == SelectSeq(t, LAMBDA c : c /= ",")

RECURSIVE DecVal(_)
DecVal(t) ==
    IF t = <<>> THEN 0
    ELSE 10 * DecVal(SubSeq(t, 1, Len(t) - 1)) + DigitVal(t[Len(t)])

ParseErr == [ok |-> FALSE, v |-> Zero]
ParseOk(v) == [ok |-> TRUE, v |-> v]

\* <f64 as FromStr>::from_str
ParseF64(t) ==
    IF t = <<>> THEN ParseErr
    ELSE
      LET neg  == t[1] = "-"
          body == IF t[1] \in {"+", "-"} THEN Tail(t) ELSE t
          low  == LowerAll(body)
      IN  IF body = <<>> THEN ParseErr
          ELSE IF \A i \in 1..Len(body) : body[i] \in Digits
               THEN ParseOk(Fin((IF neg THEN -1 ELSE 1) * DecVal(body), 1))
          ELSE IF low = <<"n", "a", "n">> THEN ParseOk(NaN)
          ELSE IF low \in { <<"i", "n", "f">>,
                            <<"i", "n", "f", "i", "n", "i", "t", "y">> }
               THEN ParseOk(Inf(IF neg THEN -1 ELSE 1))
          ELSE ParseErr

\* mutant of CleanNumber: the commas are left in
CleanNumberKeepsCommas(t) == ParseF64(t)

\* the cleaning of one numeric field (cleaning.rs:79, 87)
CleanNumber(t) == ParseF64(RemoveCommas(t))

-----------------------------------------------------------------------------
(* cleaning.rs: Record, StateStats, load_state_efficiency *)

ColState == "Plant State"
ColFuel  == "Total Fuel Consumption\nMMBtu"
ColGen   == "Net Generation\n(Megawatthours)"

\* the columns #[derive(Deserialize)] looks up by name for Record
ExpectedCols == {ColState, ColFuel, ColGen}

\* header records of the modelled files: the full schema, or one without
\* the net-generation column
HeaderChoices == {ExpectedCols, {ColState, ColFuel}}

\* A data record.  wellformed = FALSE is a record whose number of fields
\* differs from the header's, which the csv reader yields as an Err.
WellformedRows ==
    [state : States, fuel : FuelTexts, gen : GenTexts, wellformed : {TRUE}]

MalformedRow ==
    [state |-> "TX", fuel |-> <<"1">>, gen |-> <<"1">>, wellformed |-> FALSE]

RowChoices == WellformedRows \cup {MalformedRow}

\* StateStats::default()
DefaultStats == [total_fuel |-> Zero, total_gen |-> Zero]

\* HashMap::new()
EmptyMap == [s \in {} |-> DefaultStats]

\* rdr.deserialize::<Record>() yields Ok(record) for this row
Deserializes(h, r) == r.wellformed /\ ExpectedCols \subseteq h

\* mutant of RowOutcome: no test of gen_val == 0.0
RowOutcomeNoZeroTest(h, r) ==
    IF ~Deserializes(h, r) THEN [accepted |-> FALSE, fuel |-> Zero, gen |-> Zero]
    ELSE
      LET f == CleanNumber(r.fuel)
          g == CleanNumber(r.gen)
      IN  IF ~f.ok \/ ~g.ok THEN [accepted |-> FALSE, fuel |-> Zero, gen |-> Zero]
          ELSE [accepted |-> TRUE, fuel |-> f.v, gen |-> g.v]

\* The body of the for loop up to the accumulation: what the row
\* contributes, or that it is skipped (cleaning.rs:70-98).
RowOutcome(h, r) ==
    IF ~Deserializes(h, r) THEN [accepted |-> FALSE, fuel |-> Zero, gen |-> Zero]
    ELSE
      LET f == CleanNumber(r.fuel)
          g == CleanNumber(r.gen)
      IN  IF ~f.ok THEN [accepted |-> FALSE, fuel |-> Zero, gen |-> Zero]
          ELSE IF ~g.ok THEN [accepted |-> FALSE, fuel |-> Zero, gen |-> Zero]
          ELSE IF FIsZero(g.v) THEN [accepted |-> FALSE, fuel |-> Zero, gen |-> Zero]
          ELSE [accepted |-> TRUE, fuel |-> f.v, gen |-> g.v]

\* mutant of Accumulate: = in place of +=
AccumulateOverwrites(m, s, fuel_val, gen_val) ==
    [t \in (DOMAIN m) \cup {s} |->
        IF t = s THEN [total_fuel |-> fuel_val, total_gen |-> gen_val] ELSE m[t]]

\* mutant of Accumulate: -= in place of +=
AccumulateSubtracts(m, s, fuel_val, gen_val) ==
    LET entry == IF s \in DOMAIN m THEN m[s] ELSE [total_fuel |-> Zero, total_gen |-> Zero]
        upd   == [total_fuel |-> FSub(entry.total_fuel, fuel_val),
                  total_gen  |-> FSub(entry.total_gen, gen_val)]
    IN  [t \in (DOMAIN m) \cup {s} |-> IF t = s THEN upd ELSE m[t]]

\* state_map.entry(state).or_default(), then the two += (cleaning.rs:101-103)
Accumulate(m, s, fuel_val, gen_val) ==
    LET entry == IF s \in DOMAIN m THEN m[s] ELSE DefaultStats
        upd   == [total_fuel |-> FAdd(entry.total_fuel, fuel_val),
                  total_gen  |-> FAdd(entry.total_gen, gen_val)]
    IN  [t \in (DOMAIN m) \cup {s} |-> IF t = s THEN upd ELSE m[t]]

\* mutant of StepRow: break in place of continue on a skipped row
StepRowStopsOnSkip(h, st, r) ==
    LET o == RowOutcome(h, r)
    IN  IF o.accepted
        THEN [map     |-> Accumulate(st.map, r.state, o.fuel, o.gen),
              valid   |-> st.valid + 1,
              skipped |-> st.skipped,
              go      |-> TRUE]
        ELSE [map     |-> st.map,
              valid   |-> st.valid,
              skipped |-> st.skipped + 1,
              go      |-> FALSE]

\* One iteration of the for loop on the loop's locals
\* st = [map, valid, skipped, go]; go = FALSE once the loop has been left.
StepRow(h, st, r) ==
    LET o == RowOutcome(h, r)
    IN  IF o.accepted
        THEN [map     |-> Accumulate(st.map, r.state, o.fuel, o.gen),
              valid   |-> st.valid + 1,
              skipped |-> st.skipped,
              go      |-> TRUE]
        ELSE [map     |-> st.map,
              valid   |-> st.valid,
              skipped |-> st.skipped + 1,
              go      |-> TRUE]

LoopStart == [map |-> EmptyMap, valid |-> 0, skipped |-> 0, go |-> TRUE]

\* The whole for loop over the records rs
RECURSIVE RunLoop(_, _, _)
RunLoop(h, st, rs) ==
    IF rs = <<>> \/ ~st.go THEN st
    ELSE RunLoop(h, StepRow(h, st, Head(rs)), Tail(rs))

MainIdle ==
    /\ stats_2019 = EmptyMap
    /\ stats_2020 = EmptyMap
    /\ output = <<>>
    /\ changes = <<>>
    /\ top_n = 0
    /\ displayed = <<>>
    /\ written = <<>>

Init ==
    /\ pc = "open"
    /\ header = {}
    /\ rows = <<>>
    /\ state_map = EmptyMap
    /\ valid_rows = 0
    /\ skipped_rows = 0
    /\ result = "none"
    /\ MainIdle

\* File::open(file_path)? (cleaning.rs:43)
OpenFile ==
    /\ pc = "open"
    /\ \E ok \in BOOLEAN :
         IF ok THEN pc' = "headers" /\ result' = result
               ELSE pc' = "done" /\ result' = "Err"
    /\ UNCHANGED <<loadVars, mainVars>>

\* rdr.headers()? on the in-memory, valid UTF-8 csv_data: the read itself
\* cannot fail, whatever the column names are (cleaning.rs:52-67)
ReadHeaders ==
    /\ pc = "headers"
    /\ \E h \in HeaderChoices : header' = h
    /\ state_map' = EmptyMap
    /\ valid_rows' = 0
    /\ skipped_rows' = 0
    /\ pc' = "loop"
    /\ UNCHANGED <<rows, result, mainVars>>

\* one iteration of `for result in rdr.deserialize::<Record>()`
NextRecord ==
    /\ pc = "loop"
    /\ Len(rows) < MaxRows
    /\ \E r \in RowChoices :
         LET st == StepRow(header,
                           [map |-> state_map, valid |-> valid_rows,
                            skipped |-> skipped_rows, go |-> TRUE], r)
         IN  /\ rows' = Append(rows, r)
             /\ state_map' = st.map
             /\ valid_rows' = st.valid
             /\ skipped_rows' = st.skipped
             /\ pc' = IF st.go THEN "loop" ELSE "done"
             /\ result' = IF st.go THEN result ELSE "Ok"
    /\ UNCHANGED <<header, mainVars>>

\* the iterator is exhausted: print the counts, Ok(state_map)
\* (cleaning.rs:107-108)
EndOfRecords ==
    /\ pc = "loop"
    /\ pc' = "done"
    /\ result' = "Ok"
    /\ UNCHANGED <<loadVars, mainVars>>

Next == OpenFile \/ ReadHeaders \/ NextRecord \/ EndOfRecords

Spec == Init /\ [][Next]_vars

-----------------------------------------------------------------------------
(* main.rs: compute_efficiency_changes, the sort, display, write *)

\* the top_n main passes to display_top_states
TopTen == 10

Min(a, b) == IF a < b THEN a ELSE b

\* all orders in which a HashMap with key set D may be iterated
Orders(D) ==
    { o \in [1..Cardinality(D) -> D] : \A i, j \in DOMAIN o : o[i] = o[j] => i = j }

\* mutant of Qualifies: only the 2019 total_gen is tested
QualifiesTestsOneYear(a, b, s) ==
    /\ s \in DOMAIN b
    /\ ~FIsZero(a[s].total_gen)

\* the two guards of the loop body: stats_2020.get(state) is Some, and
\* neither total_gen == 0.0 (main.rs:43-46)
Qualifies(a, b, s) ==
    /\ s \in DOMAIN b
    /\ ~(FIsZero(a[s].total_gen) \/ FIsZero(b[s].total_gen))

\* mutant of MakeEfficiency: delta = eff_2019 - eff_2020
MakeEfficiencyReversed(s, stat_2019, stat_2020) ==
    LET e19 == FDiv(stat_2019.total_fuel, stat_2019.total_gen)
        e20 == FDiv(stat_2020.total_fuel, stat_2020.total_gen)
        dl  == FSub(e19, e20)
    IN  [state |-> s, eff_2019 |-> e19, eff_2020 |-> e20,
         delta |-> dl, abs_delta |-> FAbs(dl)]

\* the StateEfficiency pushed for a state (main.rs:49-60)
MakeEfficiency(s, stat_2019, stat_2020) ==
    LET e19 == FDiv(stat_2019.total_fuel, stat_2019.total_gen)
        e20 == FDiv(stat_2020.total_fuel, stat_2020.total_gen)
        dl  == FSub(e20, e19)
    IN  [state |-> s, eff_2019 |-> e19, eff_2020 |-> e20,
         delta |-> dl, abs_delta |-> FAbs(dl)]

\* compute_efficiency_changes, the keys of stats_2019 visited in order o
RECURSIVE ComputeEfficiencyChanges(_, _, _)
ComputeEfficiencyChanges(o, a, b) ==
    IF o = <<>> THEN <<>>
    ELSE LET s    == Head(o)
             rest == ComputeEfficiencyChanges(Tail(o), a, b)
         IN  IF Qualifies(a, b, s)
             THEN <<MakeEfficiency(s, a[s], b[s])>> \o rest
             ELSE rest

\* mutant of Cmp: a.abs_delta.partial_cmp(&b.abs_delta)
CmpAscending(a, b) == PartialCmp(a.abs_delta, b.abs_delta)

\* the closure |a, b| b.abs_delta.partial_cmp(&a.abs_delta), before unwrap
Cmp(a, b) == PartialCmp(b.abs_delta, a.abs_delta)

Sorted(v) == [panic |-> FALSE, v |-> v]
Panicked == [panic |-> TRUE, v |-> <<>>]

\* slice::sort_by on a short slice is a stable insertion sort: x is moved
\* left past every element it is Less than; unwrap panics on None
RECURSIVE InsertTail(_, _)
InsertTail(v, x) ==
    IF v = <<>> THEN Sorted(<<x>>)
    ELSE LET last == v[Len(v)]
             c    == Cmp(x, last)
         IN  IF c = "None" THEN Panicked
             ELSE IF c = "Less"
                  THEN LET r == InsertTail(SubSeq(v, 1, Len(v) - 1), x)
                       IN  IF r.panic THEN r ELSE Sorted(Append(r.v, last))
             ELSE Sorted(Append(v, x))

RECURSIVE SortPrefix(_, _)
SortPrefix(v, n) ==
    IF n = 0 THEN Sorted(<<>>)
    ELSE LET r == SortPrefix(v, n - 1)
         IN  IF r.panic THEN r ELSE InsertTail(r.v, v[n])

\* changes.sort_by(|a, b| b.abs_delta.partial_cmp(&a.abs_delta).unwrap())
SortByAbsDelta(v) == SortPrefix(v, Len(v))

\* data.iter().take(top_n) (main.rs:75)
Take(data, n) == SubSeq(data, 1, Min(n, Len(data)))

\* stats of the maps handed to compute_efficiency_changes in SpecFn:
\* the totals of the tests (fuel 1000, 800; gen 100, 0), -100 and NaN
FnFuel == {Fin(1000, 1), Fin(800, 1), NaN}
FnGen  == {Fin(100, 1), Fin(-100, 1), Zero, NaN}
FnStats == [total_fuel : FnFuel, total_gen : FnGen]
FnMaps == UNION { [D -> FnStats] : D \in SUBSET States }

\* the files of SpecMain
MainTexts == { <<"1">>, <<"-", "1">>, <<"N", "a", "N">>, <<"x">> }
MainRowChoices ==
    [state : States, fuel : MainTexts, gen : MainTexts, wellformed : {TRUE}]
MainFiles == UNION { [1..k -> MainRowChoices] : k \in 0..MaxMainRows }

\* load_state_efficiency as main calls it: None when File::open fails
LoadStateEfficiency(ok, h, rs) ==
    IF ok THEN [ok |-> TRUE, map |-> RunLoop(h, LoopStart, rs).map]
    ELSE [ok |-> FALSE, map |-> EmptyMap]

LoadIdle ==
    /\ header = {}
    /\ rows = <<>>
    /\ state_map = EmptyMap
    /\ valid_rows = 0
    /\ skipped_rows = 0

\* main.rs:115
Load2019 ==
    /\ pc = "load_2019"
    /\ \E ok \in BOOLEAN, h \in HeaderChoices, rs \in MainFiles :
         LET r == LoadStateEfficiency(ok, h, rs)
         IN  IF r.ok
             THEN stats_2019' = r.map /\ pc' = "load_2020" /\ result' = result
             ELSE stats_2019' = stats_2019 /\ pc' = "done" /\ result' = "Err"
    /\ UNCHANGED <<loadVars, stats_2020, output, changes, top_n, displayed, written>>

\* main.rs:118
Load2020 ==
    /\ pc = "load_2020"
    /\ \E ok \in BOOLEAN, h \in HeaderChoices, rs \in MainFiles :
         LET r == LoadStateEfficiency(ok, h, rs)
         IN  IF r.ok
             THEN stats_2020' = r.map /\ pc' = "compute" /\ result' = result
             ELSE stats_2020' = stats_2020 /\ pc' = "done" /\ result' = "Err"
    /\ UNCHANGED <<loadVars, stats_2019, output, changes, top_n, displayed, written>>

\* main.rs:121
Compute ==
    /\ pc = "compute"
    /\ \E o \in Orders(DOMAIN stats_2019) :
         /\ output' = ComputeEfficiencyChanges(o, stats_2019, stats_2020)
         /\ changes' = output'
    /\ pc' = "sort"
    /\ UNCHANGED <<loadVars, result, stats_2019, stats_2020, top_n, displayed, written>>

\* main.rs:122
SortChanges ==
    /\ pc = "sort"
    /\ LET r == SortByAbsDelta(changes)
       IN  IF r.panic
           THEN pc' = "panicked" /\ changes' = changes
           ELSE pc' = "display" /\ changes' = r.v
    /\ UNCHANGED <<loadVars, result, stats_2019, stats_2020, output, top_n,
                   displayed, written>>

\* main.rs:125
Display ==
    /\ pc = "display"
    /\ displayed' = Take(changes, top_n)
    /\ pc' = "write"
    /\ UNCHANGED <<loadVars, result, stats_2019, stats_2020, output, changes,
                   top_n, written>>

\* main.rs:128-131: write_efficiency_csv(.., &changes)?, whose file
\* operations may fail
WriteCsv ==
    /\ pc = "write"
    /\ \E ok \in BOOLEAN :
         IF ok THEN written' = changes /\ result' = "Ok"
               ELSE written' = written /\ result' = "Err"
    /\ pc' = "done"
    /\ UNCHANGED <<loadVars, stats_2019, stats_2020, output, changes, top_n,
                   displayed>>

InitMain ==
    /\ pc = "load_2019"
    /\ result = "none"
    /\ LoadIdle
    /\ stats_2019 = EmptyMap
    /\ stats_2020 = EmptyMap
    /\ output = <<>>
    /\ changes = <<>>
    /\ top_n = TopTen
    /\ displayed = <<>>
    /\ written = <<>>

NextMain == Load2019 \/ Load2020 \/ Compute \/ SortChanges \/ Display \/ WriteCsv

SpecMain == InitMain /\ [][NextMain]_vars

\* compute_efficiency_changes, the sort and display_top_states on given
\* arguments
InitFn ==
    /\ pc = "compute"
    /\ result = "none"
    /\ LoadIdle
    /\ stats_2019 \in FnMaps
    /\ stats_2020 \in FnMaps
    /\ output = <<>>
    /\ changes = <<>>
    /\ top_n \in 0..MaxTopN
    /\ displayed = <<>>
    /\ written = <<>>

NextFn == Compute \/ SortChanges \/ Display \/ WriteCsv

SpecFn == InitFn /\ [][NextFn]_vars

-----------------------------------------------------------------------------
(* Properties of load_state_efficiency, under Spec *)

HeaderOk == ExpectedCols \subseteq header

InLoad == pc \in {"loop", "done"} /\ header /= {}

\* a record that decodes, both of whose numeric fields parse after comma
\* removal, with a generation that is not 0
RowAccepted(r) ==
    /\ r.wellformed
    /\ ParseF64(RemoveCommas(r.fuel)).ok
    /\ ParseF64(RemoveCommas(r.gen)).ok
    /\ ~FIsZero(ParseF64(RemoveCommas(r.gen)).v)

FuelOf(r) == ParseF64(RemoveCommas(r.fuel)).v
GenOf(r) == ParseF64(RemoveCommas(r.gen)).v

AcceptedOf(rs, s) == { i \in DOMAIN rs : RowAccepted(rs[i]) /\ rs[i].state = s }

\* the sum, in file order, of the fuel of the accepted rows of state s
RECURSIVE SumFuel(_, _)
SumFuel(rs, s) ==
    IF rs = <<>> THEN Zero
    ELSE LET before == SumFuel(SubSeq(rs, 1, Len(rs) - 1), s)
             r      == rs[Len(rs)]
         IN  IF RowAccepted(r) /\ r.state = s THEN FAdd(before, FuelOf(r))
             ELSE before

RECURSIVE SumGen(_, _)
SumGen(rs, s) ==
    IF rs = <<>> THEN Zero
    ELSE LET before == SumGen(SubSeq(rs, 1, Len(rs) - 1), s)
             r      == rs[Len(rs)]
         IN  IF RowAccepted(r) /\ r.state = s THEN FAdd(before, GenOf(r))
             ELSE before

\* this step is an iteration of the for loop, on the record rows'[Len(rows')]
RowStep == pc = "loop" /\ Len(rows') = Len(rows) + 1

\* C1: under a decodable header, the mapping has a state exactly when an
\* accepted row carries it, and that state's total_fuel and total_gen are
\* the sums of fuel and generation over exactly its accepted rows, each
\* counted once.
C1_TotalsAreSumsOfAcceptedRows ==
    (InLoad /\ HeaderOk) =>
        \A s \in States :
            /\ (s \in DOMAIN state_map) <=> (AcceptedOf(rows, s) /= {})
            /\ s \in DOMAIN state_map =>
                 /\ state_map[s].total_fuel = SumFuel(rows, s)
                 /\ state_map[s].total_gen = SumGen(rows, s)

\* two accepted rows of TX and the call has returned: TX holds both rows
C1_Witness ==
    /\ pc = "done" /\ result = "Ok" /\ HeaderOk
    /\ Len(rows) = 2
    /\ AcceptedOf(rows, "TX") = {1, 2}
    /\ DOMAIN state_map = {"TX"}
    /\ state_map["TX"].total_fuel = Fin(1235, 1)
    /\ state_map["TX"].total_gen = Fin(2, 1)

\* C2: a row whose generation value is exactly 0 leaves the mapping as it
\* was, whatever its fuel value and also as the first row of its state.
C2_ZeroGenerationRejected ==
    [][ (RowStep /\ ParseF64(RemoveCommas(rows'[Len(rows')].gen)).ok
                 /\ FIsZero(ParseF64(RemoveCommas(rows'[Len(rows')].gen)).v))
        => (state_map' = state_map /\ valid_rows' = valid_rows) ]_vars

\* a first row of TX with fuel 1 and generation 0 was processed and skipped
C2_Witness ==
    /\ pc = "loop" /\ HeaderOk
    /\ Len(rows) = 1
    /\ rows[1].wellformed
    /\ rows[1].state = "TX"
    /\ rows[1].fuel = <<"1">>
    /\ rows[1].gen = <<"0">>
    /\ state_map = EmptyMap
    /\ skipped_rows = 1

Text1234 == <<"1", ",", "2", "3", "4">>

PriorFuel(s) == IF s \in DOMAIN state_map THEN state_map[s].total_fuel ELSE Zero
PriorGen(s) == IF s \in DOMAIN state_map THEN state_map[s].total_gen ELSE Zero

\* C3: a numeric field is converted by removing every comma and parsing
\* the rest ("1,234" yields 1234), and a row whose fuel or generation
\* field does not parse after comma removal leaves the mapping unchanged.
C3_CommaRemovalAndNonNumericRejected ==
    [][ RowStep =>
          /\ (~ParseF64(RemoveCommas(rows'[Len(rows')].fuel)).ok
                \/ ~ParseF64(RemoveCommas(rows'[Len(rows')].gen)).ok)
             => state_map' = state_map
          /\ (HeaderOk /\ rows'[Len(rows')].wellformed
                /\ rows'[Len(rows')].fuel = Text1234
                /\ rows'[Len(rows')].gen = <<"1">>)
             => /\ rows'[Len(rows')].state \in DOMAIN state_map'
                /\ state_map'[rows'[Len(rows')].state].total_fuel
                     = FAdd(PriorFuel(rows'[Len(rows')].state), Fin(1234, 1))
          /\ (HeaderOk /\ rows'[Len(rows')].wellformed
                /\ rows'[Len(rows')].fuel = <<"1">>
                /\ rows'[Len(rows')].gen = Text1234)
             => /\ rows'[Len(rows')].state \in DOMAIN state_map'
                /\ state_map'[rows'[Len(rows')].state].total_gen
                     = FAdd(PriorGen(rows'[Len(rows')].state), Fin(1234, 1)) ]_vars

\* "1,234" was taken as 1234, and then a row with a valid fuel and a bad
\* generation field was skipped
C3_Witness ==
    /\ pc = "loop" /\ HeaderOk
    /\ Len(rows) = 2
    /\ rows[1] = [state |-> "TX", fuel |-> Text1234, gen |-> <<"1">>,
                  wellformed |-> TRUE]
    /\ rows[2] = [state |-> "TX", fuel |-> <<"1">>, gen |-> <<"x">>,
                  wellformed |-> TRUE]
    /\ state_map["TX"].total_fuel = Fin(1234, 1)
    /\ valid_rows = 1
    /\ skipped_rows = 1

NumAccepted(rs) ==
    Cardinality({ i \in DOMAIN rs : HeaderOk /\ RowAccepted(rs[i]) })

\* C7: every data row adds one to exactly one of valid_rows and
\* skipped_rows, valid_rows counts the rows added to the mapping, and a
\* rejected row does not end the loop.
C7_EveryRowCountedOnce ==
    /\ [](InLoad =>
            /\ valid_rows + skipped_rows = Len(rows)
            /\ valid_rows = NumAccepted(rows))
    /\ [][ RowStep =>
            /\ pc' = "loop"
            /\ \/ valid_rows' = valid_rows + 1 /\ skipped_rows' = skipped_rows
               \/ valid_rows' = valid_rows /\ skipped_rows' = skipped_rows + 1
            /\ valid_rows' = valid_rows => state_map' = state_map
            /\ valid_rows' = valid_rows + 1
                 => rows'[Len(rows')].state \in DOMAIN state_map' ]_vars

\* a rejected row was followed by an accepted one
C7_Witness ==
    /\ pc = "done" /\ result = "Ok" /\ HeaderOk
    /\ Len(rows) = 2
    /\ ~RowAccepted(rows[1])
    /\ RowAccepted(rows[2])
    /\ valid_rows = 1
    /\ skipped_rows = 1
    /\ rows[2].state \in DOMAIN state_map

\* C8: when the header does not provide the three expected columns the
\* call returns an error and no mapping.
C8_BadHeaderIsFatal ==
    (InLoad /\ ~HeaderOk) => result /= "Ok"

FNonNeg(a) == PartialCmp(a, Zero) \in {"Greater", "Equal"}
FDecreased(new, old) == PartialCmp(new, old) = "Less"

\* C9 as stated: every total is >= 0 and no row decreases a total.
C9_TotalsNonNegativeAndMonotonic ==
    /\ [](InLoad =>
            \A s \in DOMAIN state_map :
                FNonNeg(state_map[s].total_fuel) /\ FNonNeg(state_map[s].total_gen))
    /\ [][ RowStep =>
            \A s \in DOMAIN state_map :
                /\ ~FDecreased(state_map'[s].total_fuel, state_map[s].total_fuel)
                /\ ~FDecreased(state_map'[s].total_gen, state_map[s].total_gen) ]_vars

RowNonNeg(r) == RowAccepted(r) => (FNonNeg(FuelOf(r)) /\ FNonNeg(GenOf(r)))

\* C9 as amended: a row whose fuel and generation values are >= 0 never
\* decreases a total, and a state all of whose accepted rows have fuel
\* and generation >= 0 has total_fuel >= 0 and total_gen >= 0.
C9_NonNegativeRowsKeepTotalsNonNegative ==
    /\ [](InLoad =>
            \A s \in DOMAIN state_map :
                (\A i \in AcceptedOf(rows, s) : RowNonNeg(rows[i]))
                => /\ FNonNeg(state_map[s].total_fuel)
                   /\ FNonNeg(state_map[s].total_gen))
    /\ [][ (RowStep /\ RowNonNeg(rows'[Len(rows')])) =>
            \A s \in DOMAIN state_map :
                /\ s \in DOMAIN state_map'
                /\ ~FDecreased(state_map'[s].total_fuel, state_map[s].total_fuel)
                /\ ~FDecreased(state_map'[s].total_gen, state_map[s].total_gen) ]_vars

\* two rows with non-negative values were added to TX
C9_Witness ==
    /\ pc = "loop" /\ HeaderOk
    /\ Len(rows) = 2
    /\ AcceptedOf(rows, "TX") = {1, 2}
    /\ RowNonNeg(rows[1]) /\ RowNonNeg(rows[2])
    /\ state_map["TX"].total_fuel = Fin(2, 1)
    /\ state_map["TX"].total_gen = Fin(1235, 1)

-----------------------------------------------------------------------------
(* Properties of compute_efficiency_changes, the sort and the display,     *)
(* under SpecFn                                                            *)

Computed == pc \in {"sort", "display", "write", "done", "panicked"}

EmittedFor(s) == { i \in DOMAIN output : output[i].state = s }

NonZeroInBoth(s) ==
    /\ s \in DOMAIN stats_2019
    /\ s \in DOMAIN stats_2020
    /\ ~(stats_2019[s].total_gen = Zero)
    /\ ~(stats_2020[s].total_gen = Zero)

\* C4: a result is emitted for a state exactly when the state is a key of
\* both mappings with a nonzero total_gen in both, and at most once.
C4_EmittedIffNonZeroInBoth ==
    Computed =>
        \A s \in States :
            /\ (EmittedFor(s) /= {}) <=> NonZeroInBoth(s)
            /\ Cardinality(EmittedFor(s)) <= 1

\* TX is in both mappings with a zero total_gen in 2020 only and is not
\* emitted; CA is in both with nonzero total_gen and is emitted once
C4_Witness ==
    /\ pc = "sort"
    /\ DOMAIN stats_2019 = {"TX", "CA"}
    /\ DOMAIN stats_2020 = {"TX", "CA"}
    /\ stats_2019["TX"].total_gen = Fin(100, 1)
    /\ stats_2020["TX"].total_gen = Zero
    /\ NonZeroInBoth("CA")
    /\ Len(output) = 1
    /\ output[1].state = "CA"

RatiosAndDelta(e) ==
    /\ e.state \in DOMAIN stats_2019 \cap DOMAIN stats_2020
    /\ e.eff_2019 = FDiv(stats_2019[e.state].total_fuel, stats_2019[e.state].total_gen)
    /\ e.eff_2020 = FDiv(stats_2020[e.state].total_fuel, stats_2020[e.state].total_gen)
    /\ e.delta = FSub(e.eff_2020, e.eff_2019)
    /\ e.abs_delta \in {e.delta, FNeg(e.delta)}

\* C5 as stated: every emitted record has eff_2019 and eff_2020 the two
\* ratios, delta their difference, abs_delta = |delta|, so abs_delta >= 0
\* and abs_delta is delta or -delta.
C5_RecordFieldsAndAbsNonNegative ==
    Computed =>
        \A i \in DOMAIN output :
            /\ RatiosAndDelta(output[i])
            /\ PartialCmp(output[i].abs_delta, Zero) \in {"Greater", "Equal"}

\* C5 as amended: the same, with abs_delta >= 0 unless delta is NaN, in
\* which case abs_delta is NaN too.
C5_RecordFieldsAndAbsNonNegativeUnlessNaN ==
    Computed =>
        \A i \in DOMAIN output :
            /\ RatiosAndDelta(output[i])
            /\ IF output[i].delta = NaN
               THEN output[i].abs_delta = NaN
               ELSE PartialCmp(output[i].abs_delta, Zero) \in {"Greater", "Equal"}

\* the scenario of test_efficiency_computation: 1000/100 and 800/100 give
\* 10, 8, -2, 2
C5_Witness ==
    /\ pc = "sort"
    /\ "TX" \in DOMAIN stats_2019 \cap DOMAIN stats_2020
    /\ stats_2019["TX"] = [total_fuel |-> Fin(1000, 1), total_gen |-> Fin(100, 1)]
    /\ stats_2020["TX"] = [total_fuel |-> Fin(800, 1), total_gen |-> Fin(100, 1)]
    /\ \E i \in DOMAIN output :
         output[i] = [state |-> "TX", eff_2019 |-> Fin(10, 1), eff_2020 |-> Fin(8, 1),
                      delta |-> Fin(-2, 1), abs_delta |-> Fin(2, 1)]

Occurrences(v, x) == Cardinality({ i \in DOMAIN v : v[i] = x })

SortReturned == pc \in {"display", "write", "done"}

\* C6: the sort returns a permutation of the comparator's output with
\* abs_delta non-increasing, the display takes the first min(top_n, len)
\* elements of it in order, and the whole sorted list goes to the writer.
C6_SortedPermutationPrefixAndFullWrite ==
    /\ SortReturned =>
         /\ Len(changes) = Len(output)
         /\ \A i \in DOMAIN output :
              Occurrences(changes, output[i]) = Occurrences(output, output[i])
         /\ \A i, j \in DOMAIN changes :
              i < j => PartialCmp(changes[i].abs_delta, changes[j].abs_delta)
                          \in {"Greater", "Equal"}
    /\ pc \in {"write", "done"} =>
         /\ Len(displayed) = (IF top_n < Len(changes) THEN top_n ELSE Len(changes))
         /\ \A i \in DOMAIN displayed : displayed[i] = changes[i]
    /\ (pc = "done" /\ result = "Ok") => written = changes

\* the sort moved the larger abs_delta to the front, one of the two
\* records was displayed and both were written
C6_Witness ==
    /\ pc = "done" /\ result = "Ok"
    /\ Len(output) = 2
    /\ changes = <<output[2], output[1]>>
    /\ PartialCmp(changes[1].abs_delta, changes[2].abs_delta) = "Greater"
    /\ top_n = 1
    /\ displayed = <<changes[1]>>
    /\ written = changes

-----------------------------------------------------------------------------
(* Property of main, under SpecMain *)

\* C10: once both loads have returned, no content of the data rows halts
\* the run: the sort completes and main reaches the writing step.
C10_RowContentNeverHaltsMain ==
    pc /= "panicked"

====
